---- MODULE Spec2Model ----
(***************************************************************************)
(* Model of wasmide's component layer (src/src/component.rs): the          *)
(* reference-counted Component, its dependency list and teardown, the      *)
(* one-shot root, the text / click bindings and the lazy conditional       *)
(* children of with_if / with_if_else.                                     *)
(*                                                                         *)
(* The reactive store (crate::store) is not part of the sources at hand;   *)
(* it is modelled from its contract: subscribe calls the closure once with *)
(* the current value and again on every change, synchronously, and         *)
(* unsubscribe removes the closure from the store and releases it.         *)
(***************************************************************************)
EXTENDS Naturals, Sequences, FiniteSets

\* ------------------------------------------------------------------ bounds
MaxComp == 3
MaxSubs == 3
MaxClosures == 2
MaxHandles == 2
MaxRootCalls == 2
MaxOps == 5

Threads == {1, 2}
Main == 1
Comps == 1..MaxComp
SubIds == 1..MaxSubs
ClosureIds == 1..MaxClosures
None == 0

\* values a Store<i32> bound with set_inner_html emits
TextVals == {7, 42}
RootStyle == "container"
NoStyle == ""

VARIABLES
    INITIALIZED,  \* static INITIALIZED: AtomicBool
    ROOT,         \* static mut ROOT: Option<Component> (None or a component)
    rootWrites,   \* per thread: assignments made to ROOT
    rootCalls,    \* per thread: calls of Component::root made so far
    rpc,          \* per thread: "idle", "init" (inside root, past the
                  \* compare-and-set) or "panicked"
    ops,          \* calls the application has made on the UI thread
    nextId,       \* next Rc<InternalComponent> allocation
    nextSub,      \* next subscription handed out by the store
    nextClosure,  \* next wasm_bindgen Closure
    state,        \* per component: "free", "live", "dropping", "dead"
    handles,      \* per component: strong handles held by application code
    element,      \* per component: the wrapped HtmlElement
    deps,         \* per component: Vec<Dependency>
    closures,     \* per Closure: "none", "held", "called" (held, and
                  \* invoked by a click at least once), "released"
    subs,         \* per subscription: the subscribed closure and its captures
    value,        \* current values of the two stores
    pending,      \* subscribers the running store update has yet to notify
    cb,           \* the subscriber closure being run and its position
    cont,         \* push_unsub awaiting the return of subscribe
    dropStack,    \* the InternalComponents being dropped, innermost last
    userDrop,     \* the last drop step released application closure state
    builds,       \* per subscription and branch: builder invocations
    seen,         \* per subscription: the conditions its closure was called with
    ran,          \* per subscription: its closure has returned at least once
    stage         \* per subscription: 1 once its closure has set the text or
                  \* hidden its first branch, 2 once it then replaced the
                  \* text or showed that branch again

vars == <<INITIALIZED, ROOT, rootWrites, rootCalls, rpc, ops, nextId, nextSub,
          nextClosure, state, handles, element, deps, closures, subs, value,
          pending, cb, cont, dropStack, userDrop, builds, seen, ran,
          stage>>

rootVars == <<INITIALIZED, ROOT, rootWrites, rootCalls>>
allocVars == <<nextId, nextSub, nextClosure>>
ghostVars == <<builds, seen, ran, stage>>

\* ------------------------------------------------------------ data shapes
NewElement(cls) ==
    [innerHtml |-> "", hidden |-> FALSE, children |-> <<>>, onclick |-> None,
     className |-> cls, released |-> FALSE]

Children(c) == [kind |-> "Children", id |-> c]
Closure(k) == [kind |-> "Closure", id |-> k]
Subscription(s) == [kind |-> "Subscription", id |-> s]

NoSub ==
    [kind |-> "none", cell |-> "none", owner |-> None, active |-> FALSE,
     alive |-> FALSE, c1 |-> None, c2 |-> None]

NoCb == [sub |-> None, pc |-> "none", comp |-> None]
NoCont == [comp |-> None, sub |-> None]

Range(s) == {s[i] : i \in 1..Len(s)}

RECURSIVE SeqSum(_)
SeqSum(s) == IF s = <<>> THEN 0 ELSE Head(s) + SeqSum(Tail(s))

Digit(d) ==
    CASE d = 0 -> "0" [] d = 1 -> "1" [] d = 2 -> "2" [] d = 3 -> "3"
      [] d = 4 -> "4" [] d = 5 -> "5" [] d = 6 -> "6" [] d = 7 -> "7"
      [] d = 8 -> "8" [] OTHER -> "9"

\* i32's ToString: the decimal digits
RECURSIVE ToString(_)
ToString(n) == IF n < 10 THEN Digit(n) ELSE ToString(n \div 10) \o Digit(n % 10)

\* ------------------------------------------------- reference counting (Rc)
\* Strong owners of component c: application handles, the ROOT static, the
\* Children entries of dependency lists not yet dropped, the Init(comp)
\* captured by subscribed closures, the local `comp` of a running
\* Children::activate, and the captures a closure being dropped has yet to
\* let go.
StrongCountOf(c, h, root, d, sb, cbv, stk) ==
    h[c]
    + (IF root = c THEN 1 ELSE 0)
    + Cardinality({pi \in UNION {{<<p, i>> : i \in DOMAIN d[p]} : p \in Comps} :
                     d[pi[1]][pi[2]] = Children(c)})
    + Cardinality({s \in SubIds : sb[s].alive /\ sb[s].c1 = c})
    + Cardinality({s \in SubIds : sb[s].alive /\ sb[s].c2 = c})
    + (IF cbv.comp = c THEN 1 ELSE 0)
    + Cardinality({i \in DOMAIN stk : c \in Range(stk[i].then)})

StrongCount(c) == StrongCountOf(c, handles, ROOT, deps, subs, cb, dropStack)

\* Mutant: upgrade hands out the component whether or not an owner remains.
upgrade_always(c) == c

\* WeakComponent::upgrade: Some(component) while a strong owner remains.
upgrade(c) == IF c # None /\ StrongCount(c) > 0 THEN c ELSE None

\* Component::downgrade: the weak reference names the same allocation.
downgrade(c) == c

\* Builders not yet run, held by subscribed closures: each will allocate one
\* component and one text subscription.
Unbuilt(s) ==
    IF ~subs[s].alive THEN 0
    ELSE IF subs[s].kind = "if" THEN (IF subs[s].c1 = None THEN 1 ELSE 0)
    ELSE IF subs[s].kind = "ifelse"
         THEN (IF subs[s].c1 = None THEN 1 ELSE 0)
              + (IF subs[s].c2 = None THEN 1 ELSE 0)
    ELSE 0

Reserved == SeqSum([s \in SubIds |-> Unbuilt(s)])
\* A root call past its compare-and-set will allocate the root component.
RootsInFlight == Cardinality({t \in Threads : rpc[t] = "init"})
FreeComps == (MaxComp + 1 - nextId) - Reserved - RootsInFlight
FreeSubs == (MaxSubs + 1 - nextSub) - Reserved

\* ------------------------------------------------------------ DOM helpers
Without(seq, x) == SelectSeq(seq, LAMBDA y : y # x)

DomParents(el, c) == {p \in Comps : c \in Range(el[p].children)}

RECURSIVE DomAncestors(_, _, _)
DomAncestors(el, c, fuel) ==
    IF fuel = 0 THEN {}
    ELSE LET ps == DomParents(el, c)
         IN  ps \cup UNION {DomAncestors(el, p, fuel - 1) : p \in ps}

\* Mutant: the node is inserted before the parent's other children.
DomPrepend(el, p, c) ==
    [q \in Comps |->
        IF q = p THEN [el[q] EXCEPT !.children = <<c>> \o Without(@, c)]
        ELSE [el[q] EXCEPT !.children = Without(@, c)]]

\* Node.appendChild: the node moves to the end of the new parent's children.
DomAppend(el, p, c) ==
    [q \in Comps |->
        IF q = p THEN [el[q] EXCEPT !.children = Append(Without(@, c), c)]
        ELSE [el[q] EXCEPT !.children = Without(@, c)]]

\* ------------------------------------------------------------------- Init
Init ==
    /\ INITIALIZED = FALSE
    /\ ROOT = None
    /\ rootWrites = [t \in Threads |-> 0]
    /\ rootCalls = [t \in Threads |-> 0]
    /\ rpc = [t \in Threads |-> "idle"]
    /\ ops = 0
    /\ nextId = 1
    /\ nextSub = 1
    /\ nextClosure = 1
    /\ state = [c \in Comps |-> "free"]
    /\ handles = [c \in Comps |-> 0]
    /\ element = [c \in Comps |-> NewElement(NoStyle)]
    /\ deps = [c \in Comps |-> <<>>]
    /\ closures = [k \in ClosureIds |-> "none"]
    /\ subs = [s \in SubIds |-> NoSub]
    /\ value \in [cond : BOOLEAN, text : TextVals]
    /\ pending = <<>>
    /\ cb = NoCb
    /\ cont = NoCont
    /\ dropStack = <<>>
    /\ userDrop = FALSE
    /\ builds = [s \in SubIds |-> [b \in {1, 2} |-> 0]]
    /\ seen = [s \in SubIds |-> {}]
    /\ ran = [s \in SubIds |-> FALSE]
    /\ stage = [s \in SubIds |-> 0]

\* A panic ends its thread.
Panicked(t) == rpc[t] = "panicked"
Panic(t) == rpc' = [rpc EXCEPT ![t] = "panicked"]

\* The UI thread is between two top-level calls of application code.
Idle ==
    /\ rpc[Main] = "idle"
    /\ ops < MaxOps
    /\ cb = NoCb
    /\ pending = <<>>
    /\ cont = NoCont
    /\ dropStack = <<>>

\* One more call by the application on the UI thread.
Call == ops' = ops + 1

\* -------------------------------------------------------- Component::root
\* Mutant: the exchange succeeds whatever the flag holds.
compare_exchange_always(flag, current) == TRUE

\* INITIALIZED.compare_exchange(false, true, SeqCst, SeqCst) is Ok
compare_exchange(flag, current) == flag = current

\* Mutant: the flag is only loaded, never set.
RootCasLoadOnly(t) ==
    /\ rpc[t] = "idle"
    /\ t = Main => Idle
    /\ rootCalls[t] < MaxRootCalls
    /\ ~INITIALIZED => FreeComps >= 1
    /\ rootCalls' = [rootCalls EXCEPT ![t] = @ + 1]
    /\ ops' = IF t = Main THEN ops + 1 ELSE ops
    /\ IF ~INITIALIZED THEN rpc' = [rpc EXCEPT ![t] = "init"] ELSE Panic(t)
    /\ UNCHANGED <<INITIALIZED, ROOT, rootWrites, state, handles, element,
                   deps, closures, subs, value, pending, cb, cont, dropStack,
                   userDrop>>
    /\ UNCHANGED allocVars
    /\ UNCHANGED ghostVars

\* The compare-and-set and its .expect("root already initialized").
RootCas(t) ==
    /\ rpc[t] = "idle"
    /\ t = Main => Idle
    /\ rootCalls[t] < MaxRootCalls
    /\ compare_exchange(INITIALIZED, FALSE) => FreeComps >= 1
    /\ rootCalls' = [rootCalls EXCEPT ![t] = @ + 1]
    /\ ops' = IF t = Main THEN ops + 1 ELSE ops
    /\ IF compare_exchange(INITIALIZED, FALSE)
       THEN /\ INITIALIZED' = TRUE
            /\ rpc' = [rpc EXCEPT ![t] = "init"]
       ELSE /\ Panic(t)
            /\ UNCHANGED INITIALIZED
    /\ UNCHANGED <<ROOT, rootWrites, state, handles, element, deps, closures,
                   subs, value, pending, cb, cont, dropStack, userDrop>>
    /\ UNCHANGED allocVars
    /\ UNCHANGED ghostVars

\* Mutant: root returns the component without keeping a clone in ROOT.
RootInitNoKeep(t) ==
    /\ rpc[t] = "init"
    /\ nextId <= MaxComp
    /\ LET c == nextId IN
        /\ nextId' = nextId + 1
        /\ state' = [state EXCEPT ![c] = IF t = Main THEN "live" ELSE "dead"]
        /\ element' = [element EXCEPT ![c] = NewElement(RootStyle)]
        /\ handles' = [handles EXCEPT ![c] = IF t = Main THEN 1 ELSE 0]
    /\ rootWrites' = [rootWrites EXCEPT ![t] = @ + 1]
    /\ rpc' = [rpc EXCEPT ![t] = "idle"]
    /\ UNCHANGED <<INITIALIZED, ROOT, rootCalls, ops, nextSub, nextClosure,
                   deps, closures, subs, value, pending, cb, cont, dropStack,
                   userDrop>>
    /\ UNCHANGED ghostVars

\* The rest of root: wrap the body, set its style, ROOT = Some(comp.clone()),
\* return comp. The UI thread keeps the returned handle; the other thread
\* lets it go at once.
RootInit(t) ==
    /\ rpc[t] = "init"
    /\ nextId <= MaxComp
    /\ LET c == nextId IN
        /\ nextId' = nextId + 1
        /\ state' = [state EXCEPT ![c] = "live"]
        /\ element' = [element EXCEPT ![c] = NewElement(RootStyle)]
        /\ ROOT' = c
        /\ rootWrites' = [rootWrites EXCEPT ![t] = @ + 1]
        /\ handles' = [handles EXCEPT ![c] = IF t = Main THEN 1 ELSE 0]
    /\ rpc' = [rpc EXCEPT ![t] = "idle"]
    /\ UNCHANGED <<INITIALIZED, rootCalls, ops, nextSub, nextClosure, deps,
                   closures, subs, value, pending, cb, cont, dropStack,
                   userDrop>>
    /\ UNCHANGED ghostVars

\* --------------------------------------------------------- Component::new
new ==
    /\ Idle
    /\ Call
    /\ FreeComps >= 1
    /\ state' = [state EXCEPT ![nextId] = "live"]
    /\ element' = [element EXCEPT ![nextId] = NewElement(NoStyle)]
    /\ handles' = [handles EXCEPT ![nextId] = 1]
    /\ nextId' = nextId + 1
    /\ UNCHANGED <<rpc, nextSub, nextClosure, deps, closures, subs, value,
                   pending, cb, cont, dropStack, userDrop>>
    /\ UNCHANGED rootVars
    /\ UNCHANGED ghostVars

\* ----------------------------------------------- Clone / drop of a handle
\* #[derive(Clone)] on Component: one more strong handle.
Clone(c) ==
    /\ Idle
    /\ Call
    /\ handles[c] >= 1
    /\ handles[c] < MaxHandles
    /\ handles' = [handles EXCEPT ![c] = @ + 1]
    /\ UNCHANGED <<rpc, state, element, deps, closures, subs, value, pending,
                   cb, cont, dropStack, userDrop>>
    /\ UNCHANGED rootVars
    /\ UNCHANGED allocVars
    /\ UNCHANGED ghostVars

\* Mutant: an allocation is kept although its last strong owner is gone.
ReleaseNothing(cs, h, d, sb, cbv, stk) == <<>>

\* Strong references to the components cs are let go one after the other:
\* the first one left without a strong owner is torn down at once, the ones
\* after it stay held until that teardown is over.
RECURSIVE Release(_, _, _, _, _, _)
Release(cs, h, d, sb, cbv, stk) ==
    IF cs = <<>> THEN <<>>
    ELSE IF /\ state[Head(cs)] = "live"
            /\ StrongCountOf(Head(cs), h, ROOT, d, sb, cbv, stk) = 0
         THEN <<[comp |-> Head(cs), then |-> Tail(cs)]>>
         ELSE Release(Tail(cs), h, d, sb, cbv, stk)

\* The components whose teardown the frames fs start.
Started(st, fs) ==
    [x \in Comps |->
        IF \E i \in DOMAIN fs : fs[i].comp = x THEN "dropping" ELSE st[x]]

\* Dropping an application handle; the last strong owner starts the teardown.
DropHandle(c) ==
    /\ Idle
    /\ Call
    /\ handles[c] >= 1
    /\ handles' = [handles EXCEPT ![c] = @ - 1]
    /\ LET fs == Release(<<c>>, handles', deps, subs, cb, dropStack) IN
        /\ dropStack' = fs
        /\ state' = Started(state, fs)
    /\ UNCHANGED <<rpc, element, deps, closures, subs, value, pending, cb,
                   cont, userDrop>>
    /\ UNCHANGED rootVars
    /\ UNCHANGED allocVars
    /\ UNCHANGED ghostVars

\* ------------------------------------------------ dependency list, append
\* Mutant: the new dependency takes the place of the ones recorded before.
push_dep_replace(d, c, dep) == [d EXCEPT ![c] = <<dep>>]

\* Component::push_dep: (*self.0.deps.get()).push(dep)
push_dep(d, c, dep) == [d EXCEPT ![c] = Append(@, dep)]

push_closure(d, c, k) == push_dep(d, c, Closure(k))

push_unsub(d, c, s) == push_dep(d, c, Subscription(s))

\* Component::with -> append_child: the native append, then the Children
\* dependency. The native append fails (and its unwrap panics) when the child
\* is the parent itself or one of its ancestors. A component that is already
\* attached (the application kept a clone of its handle) moves to its new
\* place in the tree, and a second Children entry is recorded.
with(p, c) ==
    /\ Idle
    /\ Call
    /\ handles[p] >= 1
    /\ handles[c] >= (IF p = c THEN 2 ELSE 1)
    /\ IF c = p \/ c \in DomAncestors(element, p, MaxComp)
       THEN /\ Panic(Main)
            /\ UNCHANGED <<element, deps, handles>>
       ELSE /\ element' = DomAppend(element, p, c)
            /\ deps' = push_dep(deps, p, Children(c))
            /\ handles' = [handles EXCEPT ![c] = @ - 1]
            /\ UNCHANGED rpc
    /\ UNCHANGED <<state, closures, subs, value, pending, cb, cont, dropStack,
                   userDrop>>
    /\ UNCHANGED rootVars
    /\ UNCHANGED allocVars
    /\ UNCHANGED ghostVars

\* Mutant: the Closure is installed on the element but not kept: it is
\* dropped when set_on_click returns.
set_on_click_forget(c) ==
    /\ Idle
    /\ Call
    /\ handles[c] >= 1
    /\ nextClosure <= MaxClosures
    /\ LET k == nextClosure IN
        /\ closures' = [closures EXCEPT ![k] = "released"]
        /\ element' = [element EXCEPT ![c].onclick = k]
        /\ nextClosure' = k + 1
    /\ UNCHANGED <<rpc, nextId, nextSub, state, handles, deps, subs, value,
                   pending, cb, cont, dropStack, userDrop>>
    /\ UNCHANGED rootVars
    /\ UNCHANGED ghostVars

\* Component::set_on_click: wrap the handler in a Closure, install it on the
\* element, keep the Closure in the dependency list.
set_on_click(c) ==
    /\ Idle
    /\ Call
    /\ handles[c] >= 1
    /\ nextClosure <= MaxClosures
    /\ LET k == nextClosure IN
        /\ closures' = [closures EXCEPT ![k] = "held"]
        /\ element' = [element EXCEPT ![c].onclick = k]
        /\ deps' = push_closure(deps, c, k)
        /\ nextClosure' = k + 1
    /\ UNCHANGED <<rpc, nextId, nextSub, state, handles, subs, value, pending,
                   cb, cont, dropStack, userDrop>>
    /\ UNCHANGED rootVars
    /\ UNCHANGED ghostVars

\* ------------------------------------------------------------- the store
\* Subscribers of a store that a store update notifies, in subscription
\* order.
RECURSIVE SubscribersFrom(_, _)
SubscribersFrom(cell, s) ==
    IF s > MaxSubs THEN <<>>
    ELSE (IF subs[s].active /\ subs[s].cell = cell THEN <<s>> ELSE <<>>)
         \o SubscribersFrom(cell, s + 1)

Subscribers(cell) == SubscribersFrom(cell, 1)

\* The elements shown by the page: the body wrapped by the root and the
\* nodes below it.
InDocument(c) ==
    /\ ROOT # None
    /\ c = ROOT \/ ROOT \in DomAncestors(element, c, MaxComp)

\* A click on an element of the page that has an onclick handler: the
\* browser calls the function made from the Closure. The handler is
\* application code; here it sets a store. Calling the function of a Closure
\* that was dropped throws.
Click(c) ==
    /\ Idle
    /\ Call
    /\ InDocument(c)
    /\ element[c].onclick # None
    /\ LET k == element[c].onclick IN
        IF closures[k] \in {"held", "called"}
        THEN /\ closures' = [closures EXCEPT ![k] = "called"]
             /\ \E cell \in {"cond", "text"} :
                  \E v \in (IF cell = "cond" THEN BOOLEAN ELSE TextVals) :
                     /\ value' = [value EXCEPT ![cell] = v]
                     /\ pending' = Subscribers(cell)
             /\ UNCHANGED rpc
        ELSE /\ Panic(Main)
             /\ UNCHANGED <<closures, value, pending>>
    /\ UNCHANGED <<state, handles, element, deps, subs, cb, cont, dropStack,
                   userDrop>>
    /\ UNCHANGED rootVars
    /\ UNCHANGED allocVars
    /\ UNCHANGED ghostVars

\* Mutant: the conditional closures build their first branch whatever the
\* condition is.
EntryPcEager(kind, condition) == IF kind = "text" THEN "text" ELSE "activate1"

\* Where a subscriber closure starts for the value it is called with.
EntryPc(kind, condition) ==
    CASE kind = "text" -> "text"
      [] kind = "if" -> IF condition THEN "activate1" ELSE "deactivate1"
      [] kind = "ifelse" -> IF condition THEN "activate1" ELSE "deactivate1"
      [] OTHER -> "none"

\* The store calls subscriber s with the current value.
Invoke(s, kind) ==
    /\ cb' = [sub |-> s, pc |-> EntryPc(kind, value.cond), comp |-> None]
    /\ seen' = IF kind = "text" THEN seen
               ELSE [seen EXCEPT ![s] = @ \cup {value.cond}]

\* Store::set from application code: the value changes and every subscriber
\* is called before set returns.
Emit(cell, v) ==
    /\ Idle
    /\ Call
    /\ value' = [value EXCEPT ![cell] = v]
    /\ pending' = Subscribers(cell)
    /\ UNCHANGED <<rpc, state, handles, element, deps, closures, subs, cb,
                   cont, dropStack, userDrop>>
    /\ UNCHANGED rootVars
    /\ UNCHANGED allocVars
    /\ UNCHANGED ghostVars

\* Store::set from a destructor of application state (the captures of a
\* click handler or of a builder) that the running teardown released.
DtorEmit(cell, v) ==
    /\ ~Panicked(Main)
    /\ userDrop
    /\ cb = NoCb
    /\ pending = <<>>
    /\ dropStack # <<>>
    /\ value' = [value EXCEPT ![cell] = v]
    /\ pending' = Subscribers(cell)
    /\ userDrop' = FALSE
    /\ UNCHANGED <<rpc, ops, state, handles, element, deps, closures, subs,
                   cb, cont, dropStack>>
    /\ UNCHANGED rootVars
    /\ UNCHANGED allocVars
    /\ UNCHANGED ghostVars

\* The store calls the next subscriber; one unsubscribed meanwhile is skipped.
Dispatch ==
    /\ ~Panicked(Main)
    /\ cb = NoCb
    /\ pending # <<>>
    /\ IF subs[Head(pending)].active
       THEN Invoke(Head(pending), subs[Head(pending)].kind)
       ELSE UNCHANGED <<cb, seen>>
    /\ pending' = Tail(pending)
    /\ UNCHANGED <<rpc, ops, state, handles, element, deps, closures, subs,
                   value, cont, dropStack, userDrop, builds, ran, stage>>
    /\ UNCHANGED rootVars
    /\ UNCHANGED allocVars

\* --------------------------------------------------------- subscriptions
\* What the set_inner_html closure captures: weak = self.downgrade()
TextSub(c) ==
    [kind |-> "text", cell |-> "text", owner |-> downgrade(c), active |-> TRUE,
     alive |-> TRUE, c1 |-> None, c2 |-> None]

\* What the with_if / with_if_else closure captures: this = self.downgrade()
\* and Children::new for each branch, Uninit(Some(init)).
CondSub(kind, p) ==
    [kind |-> kind, cell |-> "cond", owner |-> downgrade(p), active |-> TRUE,
     alive |-> TRUE, c1 |-> None, c2 |-> None]

\* subscribe: the store registers the closure and calls it once with the
\* current value; push_unsub follows when subscribe returns.
Subscribe(c, sub) ==
    /\ subs' = [subs EXCEPT ![nextSub] = sub]
    /\ Invoke(nextSub, sub.kind)
    /\ cont' = [comp |-> c, sub |-> nextSub]
    /\ nextSub' = nextSub + 1
    /\ UNCHANGED <<rpc, nextId, nextClosure, state, handles, element, deps,
                   closures, value, pending, dropStack, userDrop, builds, ran,
                   stage>>
    /\ UNCHANGED rootVars

set_inner_html(c) ==
    /\ Idle
    /\ Call
    /\ handles[c] >= 1
    /\ FreeSubs >= 1
    /\ Subscribe(c, TextSub(c))

with_if(p) ==
    /\ Idle
    /\ Call
    /\ handles[p] >= 1
    /\ FreeSubs >= 2
    /\ FreeComps >= 1
    /\ Subscribe(p, CondSub("if", p))

with_if_else(p) ==
    /\ Idle
    /\ Call
    /\ handles[p] >= 1
    /\ FreeSubs >= 3
    /\ FreeComps >= 2
    /\ Subscribe(p, CondSub("ifelse", p))

\* self.push_unsub(unsub), once subscribe has returned
PushUnsub ==
    /\ ~Panicked(Main)
    /\ cb = NoCb
    /\ pending = <<>>
    /\ cont # NoCont
    /\ deps' = push_unsub(deps, cont.comp, cont.sub)
    /\ cont' = NoCont
    /\ UNCHANGED <<rpc, ops, state, handles, element, closures, subs, value,
                   pending, cb, dropStack, userDrop>>
    /\ UNCHANGED rootVars
    /\ UNCHANGED allocVars
    /\ UNCHANGED ghostVars

\* ------------------------------------------------ the subscriber closures
Branch(s, b) == IF b = 1 THEN subs[s].c1 ELSE subs[s].c2

SetBranch(sb, s, b, c) ==
    IF b = 1 THEN [sb EXCEPT ![s].c1 = c] ELSE [sb EXCEPT ![s].c2 = c]

\* Mutant: the with_if_else closure returns after its first call.
NextPcFirstOnly(kind, pc) == "none"

\* What the closure does after the call at pc: with_if makes one call,
\* with_if_else two (activate then deactivate when the condition is true,
\* deactivate then activate when it is false).
NextPc(kind, pc) ==
    IF kind = "ifelse" /\ pc \in {"activate1", "attach1"} THEN "deactivate2"
    ELSE IF kind = "ifelse" /\ pc = "deactivate1" THEN "activate2"
    ELSE "none"

\* The closure goes on to its next call, or returns.
Advance ==
    LET n == NextPc(subs[cb.sub].kind, cb.pc) IN
    /\ cb' = IF n = "none" THEN NoCb ELSE [sub |-> cb.sub, pc |-> n, comp |-> None]
    /\ ran' = IF n = "none" THEN [ran EXCEPT ![cb.sub] = TRUE] ELSE ran

\* Mutant: the closure sets the inner html only while it is still empty.
CbTextOnce ==
    /\ ~Panicked(Main)
    /\ cb.pc = "text"
    /\ LET comp == upgrade(subs[cb.sub].owner) IN
        /\ element' = IF comp # None /\ element[comp].innerHtml = ""
                      THEN [element EXCEPT
                              ![comp].innerHtml = ToString(value.text)]
                      ELSE element
        /\ stage' = IF comp = None THEN stage
                    ELSE IF stage[cb.sub] = 0 THEN [stage EXCEPT ![cb.sub] = 1]
                    ELSE IF element[comp].innerHtml # ToString(value.text)
                         THEN [stage EXCEPT ![cb.sub] = 2]
                    ELSE stage
    /\ Advance
    /\ UNCHANGED <<rpc, ops, state, handles, deps, closures, subs, value,
                   pending, cont, dropStack, userDrop, builds, seen>>
    /\ UNCHANGED rootVars
    /\ UNCHANGED allocVars

\* The set_inner_html closure: upgrade the weak reference, and set the
\* element's inner html to the value's string form if the component lives.
CbText ==
    /\ ~Panicked(Main)
    /\ cb.pc = "text"
    /\ LET comp == upgrade(subs[cb.sub].owner) IN
        /\ element' = IF comp # None
                      THEN [element EXCEPT
                              ![comp].innerHtml = ToString(value.text)]
                      ELSE element
        /\ stage' = IF comp = None THEN stage
                    ELSE IF stage[cb.sub] = 0 THEN [stage EXCEPT ![cb.sub] = 1]
                    ELSE IF element[comp].innerHtml # ToString(value.text)
                         THEN [stage EXCEPT ![cb.sub] = 2]
                    ELSE stage
    /\ Advance
    /\ UNCHANGED <<rpc, ops, state, handles, deps, closures, subs, value,
                   pending, cont, dropStack, userDrop, builds, seen>>
    /\ UNCHANGED rootVars
    /\ UNCHANGED allocVars

\* The builder handed to with_if / with_if_else, as in the documented use:
\* || html::p(store, Style::NONE), a fresh component whose text is bound.
Builder(s, b) ==
    /\ state' = [state EXCEPT ![nextId] = "live"]
    /\ element' = [element EXCEPT
                     ![nextId] = [NewElement(NoStyle) EXCEPT
                                    !.innerHtml = ToString(value.text)]]
    /\ subs' = [subs EXCEPT ![nextSub] = TextSub(nextId)]
    /\ deps' = push_unsub(deps, nextId, nextSub)
    /\ builds' = [builds EXCEPT ![s][b] = @ + 1]
    /\ ran' = [ran EXCEPT ![nextSub] = TRUE]
    /\ stage' = [stage EXCEPT ![nextSub] = 1]
    /\ cb' = [cb EXCEPT !.comp = nextId,
                        !.pc = IF b = 1 THEN "attach1" ELSE "attach2"]
    /\ nextId' = nextId + 1
    /\ nextSub' = nextSub + 1

\* Mutant: activate runs the builder again on an initialized branch.
activate_rebuild(s, b) == Builder(s, b)

\* Children::activate: Uninit runs the builder (init.take().unwrap()());
\* Init shows the component again.
activate(s, b) ==
    IF Branch(s, b) = None
    THEN Builder(s, b)
    ELSE /\ element' = [element EXCEPT ![Branch(s, b)].hidden = FALSE]
         /\ stage' = IF b = 1 /\ stage[s] = 1 THEN [stage EXCEPT ![s] = 2]
                     ELSE stage
         /\ Advance
         /\ UNCHANGED <<state, subs, deps, builds, nextId, nextSub>>

CbActivate ==
    /\ ~Panicked(Main)
    /\ cb.pc \in {"activate1", "activate2"}
    /\ activate(cb.sub, IF cb.pc = "activate1" THEN 1 ELSE 2)
    /\ UNCHANGED <<rpc, ops, nextClosure, handles, closures, value, pending,
                   cont, dropStack, userDrop, seen>>
    /\ UNCHANGED rootVars

\* Mutant: the child is appended through the parent's allocation without
\* checking that the upgrade succeeded.
attach_unchecked(s, b) ==
    /\ element' = DomAppend(element, subs[s].owner, cb.comp)
    /\ deps' = push_dep(deps, subs[s].owner, Children(cb.comp))
    /\ subs' = SetBranch(subs, s, b, cb.comp)
    /\ Advance
    /\ UNCHANGED rpc

\* Children::activate, Uninit, after the builder returned:
\* parent.upgrade().unwrap().append_child(comp.clone()); *self = Init(comp)
attach(s, b) ==
    LET parent == upgrade(subs[s].owner) IN
    IF parent = None
    THEN /\ Panic(Main)
         /\ UNCHANGED <<element, deps, subs, cb, ran>>
    ELSE /\ element' = DomAppend(element, parent, cb.comp)
         /\ deps' = push_dep(deps, parent, Children(cb.comp))
         /\ subs' = SetBranch(subs, s, b, cb.comp)
         /\ Advance
         /\ UNCHANGED rpc

CbAttach ==
    /\ ~Panicked(Main)
    /\ cb.pc \in {"attach1", "attach2"}
    /\ attach(cb.sub, IF cb.pc = "attach1" THEN 1 ELSE 2)
    /\ UNCHANGED <<ops, state, handles, closures, value, pending, cont,
                   dropStack, userDrop, builds, seen, stage>>
    /\ UNCHANGED rootVars
    /\ UNCHANGED allocVars

\* Mutant: deactivate leaves the component as it is.
deactivate_noop(s, b) == UNCHANGED <<element, stage>>

\* Children::deactivate: hide the component if it is initialized.
deactivate(s, b) ==
    /\ element' = IF Branch(s, b) # None
                  THEN [element EXCEPT ![Branch(s, b)].hidden = TRUE]
                  ELSE element
    /\ stage' = IF b = 1 /\ Branch(s, b) # None /\ stage[s] = 0
                THEN [stage EXCEPT ![s] = 1]
                ELSE stage

CbDeactivate ==
    /\ ~Panicked(Main)
    /\ cb.pc \in {"deactivate1", "deactivate2"}
    /\ deactivate(cb.sub, IF cb.pc = "deactivate1" THEN 1 ELSE 2)
    /\ Advance
    /\ UNCHANGED <<rpc, ops, state, handles, deps, closures, subs, value,
                   pending, cont, dropStack, userDrop, builds, seen>>
    /\ UNCHANGED rootVars
    /\ UNCHANGED allocVars

\* ---------------------------------------------------------------- teardown
Top == dropStack[Len(dropStack)]
Pop == SubSeq(dropStack, 1, Len(dropStack) - 1)

Dropping ==
    /\ ~Panicked(Main)
    /\ cb = NoCb
    /\ pending = <<>>
    /\ dropStack # <<>>

\* InternalComponent's fields drop in declaration order: element first.
DropElement ==
    /\ Dropping
    /\ ~element[Top.comp].released
    /\ element' = [element EXCEPT ![Top.comp].released = TRUE]
    /\ userDrop' = FALSE
    /\ UNCHANGED <<rpc, ops, state, handles, deps, closures, subs, value,
                   pending, cb, cont, dropStack>>
    /\ UNCHANGED rootVars
    /\ UNCHANGED allocVars
    /\ UNCHANGED ghostVars

\* StoreUnsubscriber::unsubscribe: the store forgets the closure and releases
\* it with everything it captured.
unsubscribe(sb, s) == [sb EXCEPT ![s].active = FALSE, ![s].alive = FALSE]

\* impl Drop for Dependency: a Subscription is unsubscribed.
DependencyDrop(sb, dep) ==
    IF dep.kind = "Subscription" THEN unsubscribe(sb, dep.id) ELSE sb

\* The components a dependency held strongly, in the order they are let go:
\* the child of a Children entry, the Init(comp) captured by a closure that
\* dropping the dependency released.
Held(dep, sb) ==
    IF dep.kind = "Children" THEN <<dep.id>>
    ELSE IF dep.kind = "Subscription" /\ subs[dep.id].alive /\ ~sb[dep.id].alive
         THEN SelectSeq(<<subs[dep.id].c1, subs[dep.id].c2>>,
                        LAMBDA x : x # None)
    ELSE <<>>

\* Mutant: the dependency list is dropped newest entry first.
DropDepNewestFirst ==
    /\ Dropping
    /\ element[Top.comp].released
    /\ deps[Top.comp] # <<>>
    /\ LET n == Len(deps[Top.comp])
           dep == deps[Top.comp][n]
           fs == Release(Held(dep, subs'), handles, deps', subs', cb, dropStack)
       IN  /\ deps' = [deps EXCEPT ![Top.comp] = SubSeq(@, 1, n - 1)]
           /\ subs' = DependencyDrop(subs, dep)
           /\ closures' = IF dep.kind = "Closure"
                          THEN [closures EXCEPT ![dep.id] = "released"]
                          ELSE closures
           /\ userDrop' = \/ dep.kind = "Closure"
                          \/ dep.kind = "Subscription" /\ Unbuilt(dep.id) > 0
           /\ dropStack' = dropStack \o fs
           /\ state' = Started(state, fs)
    /\ UNCHANGED <<rpc, ops, handles, element, value, pending, cb, cont>>
    /\ UNCHANGED rootVars
    /\ UNCHANGED allocVars
    /\ UNCHANGED ghostVars

\* Vec<Dependency> drops its elements front to back; a component left
\* without a strong owner is torn down before the next element.
DropDep ==
    /\ Dropping
    /\ element[Top.comp].released
    /\ deps[Top.comp] # <<>>
    /\ LET dep == Head(deps[Top.comp])
           fs == Release(Held(dep, subs'), handles, deps', subs', cb, dropStack)
       IN  /\ deps' = [deps EXCEPT ![Top.comp] = Tail(@)]
           /\ subs' = DependencyDrop(subs, dep)
           /\ closures' = IF dep.kind = "Closure"
                          THEN [closures EXCEPT ![dep.id] = "released"]
                          ELSE closures
           /\ userDrop' = \/ dep.kind = "Closure"
                          \/ dep.kind = "Subscription" /\ Unbuilt(dep.id) > 0
           /\ dropStack' = dropStack \o fs
           /\ state' = Started(state, fs)
    /\ UNCHANGED <<rpc, ops, handles, element, value, pending, cb, cont>>
    /\ UNCHANGED rootVars
    /\ UNCHANGED allocVars
    /\ UNCHANGED ghostVars

\* Every field is dropped: the allocation is gone, and the closure whose
\* release started this teardown lets go of its next capture.
DropDone ==
    /\ Dropping
    /\ element[Top.comp].released
    /\ deps[Top.comp] = <<>>
    /\ LET fs == Release(Top.then, handles, deps, subs, cb, Pop) IN
        /\ dropStack' = Pop \o fs
        /\ state' = [Started(state, fs) EXCEPT ![Top.comp] = "dead"]
    /\ userDrop' = FALSE
    /\ UNCHANGED <<rpc, ops, handles, element, deps, closures, subs, value,
                   pending, cb, cont>>
    /\ UNCHANGED rootVars
    /\ UNCHANGED allocVars
    /\ UNCHANGED ghostVars

\* ------------------------------------------------------------------- Next
\* The application on the UI thread, with the root obtained there.
Next ==
    \/ RootCas(Main)
    \/ RootInit(Main)
    \/ new
    \/ \E c \in Comps : Clone(c)
    \/ \E c \in Comps : DropHandle(c)
    \/ \E p, c \in Comps : with(p, c)
    \/ \E c \in Comps : set_on_click(c)
    \/ \E c \in Comps : Click(c)
    \/ \E c \in Comps : set_inner_html(c)
    \/ \E p \in Comps : with_if(p)
    \/ \E p \in Comps : with_if_else(p)
    \/ \E v \in BOOLEAN : Emit("cond", v)
    \/ \E v \in TextVals : Emit("text", v)
    \/ \E v \in BOOLEAN : DtorEmit("cond", v)
    \/ \E v \in TextVals : DtorEmit("text", v)
    \/ Dispatch
    \/ PushUnsub
    \/ CbText
    \/ CbActivate
    \/ CbAttach
    \/ CbDeactivate
    \/ DropElement
    \/ DropDep
    \/ DropDone

Spec == Init /\ [][Next]_vars

\* The steps of a call in progress on the UI thread: a store update, a
\* subscriber closure and a teardown run to their end.
Step ==
    \/ RootInit(Main)
    \/ Dispatch
    \/ PushUnsub
    \/ CbText
    \/ CbActivate
    \/ CbAttach
    \/ CbDeactivate
    \/ DropElement
    \/ DropDep
    \/ DropDone

FairSpec == Spec /\ WF_vars(Step)

\* Two threads race to Component::root while the UI thread builds and drops
\* plain component trees.
NextRoot ==
    \/ \E t \in Threads : RootCas(t)
    \/ \E t \in Threads : RootInit(t)
    \/ new
    \/ \E c \in Comps : Clone(c)
    \/ \E c \in Comps : DropHandle(c)
    \/ \E p, c \in Comps : with(p, c)
    \/ DropElement
    \/ DropDep
    \/ DropDone

SpecRoot == Init /\ [][NextRoot]_vars

\* The application has created one component with Component::new and holds
\* its handle.
InitTree ==
    /\ INITIALIZED = FALSE
    /\ ROOT = None
    /\ rootWrites = [t \in Threads |-> 0]
    /\ rootCalls = [t \in Threads |-> 0]
    /\ rpc = [t \in Threads |-> "idle"]
    /\ ops = 0
    /\ nextId = 2
    /\ nextSub = 1
    /\ nextClosure = 1
    /\ state = [c \in Comps |-> IF c = 1 THEN "live" ELSE "free"]
    /\ handles = [c \in Comps |-> IF c = 1 THEN 1 ELSE 0]
    /\ element = [c \in Comps |-> NewElement(NoStyle)]
    /\ deps = [c \in Comps |-> <<>>]
    /\ closures = [k \in ClosureIds |-> "none"]
    /\ subs = [s \in SubIds |-> NoSub]
    /\ value \in [cond : {FALSE}, text : TextVals]
    /\ pending = <<>>
    /\ cb = NoCb
    /\ cont = NoCont
    /\ dropStack = <<>>
    /\ userDrop = FALSE
    /\ builds = [s \in SubIds |-> [b \in {1, 2} |-> 0]]
    /\ seen = [s \in SubIds |-> {}]
    /\ ran = [s \in SubIds |-> FALSE]
    /\ stage = [s \in SubIds |-> 0]

\* Trees of plain components with text bindings and click handlers, built
\* with `with` and dropped.
NextTree ==
    \/ new
    \/ \E c \in Comps : Clone(c)
    \/ \E c \in Comps : DropHandle(c)
    \/ \E p, c \in Comps : with(p, c)
    \/ \E c \in Comps : set_on_click(c)
    \/ \E c \in Comps : set_inner_html(c)
    \/ \E v \in TextVals : Emit("text", v)
    \/ \E v \in TextVals : DtorEmit("text", v)
    \/ Dispatch
    \/ PushUnsub
    \/ CbText
    \/ DropElement
    \/ DropDep
    \/ DropDone

SpecTree == InitTree /\ [][NextTree]_vars

\* ================================================================ claims
RootComps == {c \in Comps : state[c] # "free" /\ element[c].className = RootStyle}
TotalRootCalls == rootCalls[1] + rootCalls[2]
TotalRootWrites == rootWrites[1] + rootWrites[2]

\* C1: Component::root succeeds on its first call in the process; every
\* later call panics ("root already initialized") at the compare-and-set,
\* allocating nothing and leaving ROOT and every component as they were, so
\* there is never a second root component.
C1_RootOnce ==
    /\ [](Cardinality(RootComps) <= 1)
    /\ [](\A t \in Threads :
            rpc[t] = "idle" /\ rootWrites[t] = 1 => ROOT \in RootComps)
    /\ [][\A t \in Threads :
            rootCalls'[t] = rootCalls[t] + 1 =>
                IF TotalRootCalls = 0
                THEN rpc'[t] = "init"
                ELSE /\ rpc'[t] = "panicked"
                     /\ UNCHANGED <<ROOT, rootWrites, nextId, state, element,
                                    handles>>]_vars

\* A thread called root twice: its first call returned the root, its second
\* panicked.
C1_Witness ==
    \E t \in Threads :
        /\ rootCalls[t] = 2
        /\ rootWrites[t] = 1
        /\ Panicked(t)
        /\ ROOT \in RootComps

\* C2: whatever the interleaving of two threads calling root, exactly one
\* call passes the compare-and-set and writes ROOT; every other call panics
\* without having written ROOT, so ROOT is written at most once.
C2_RootRace ==
    LET passed == {t \in Threads : rpc[t] = "init"} IN
    /\ Cardinality(passed) + TotalRootWrites <= 1
    /\ TotalRootCalls > 0 => Cardinality(passed) + TotalRootWrites = 1
    /\ TotalRootWrites = (IF ROOT = None THEN 0 ELSE 1)
    /\ \A t \in Threads :
          /\ rootWrites[t] <= 1
          /\ rootCalls[t] > rootWrites[t] + (IF t \in passed THEN 1 ELSE 0)
                => Panicked(t)

\* One thread is inside root, past the compare-and-set and before the write
\* of ROOT, when the other thread's call fails.
C2_Witness ==
    \E t, u \in Threads :
        /\ t # u
        /\ rpc[t] = "init"
        /\ ROOT = None
        /\ rootCalls[u] = 1
        /\ Panicked(u)

\* The subscriptions recorded in the dependency list of component c.
OwnSubs(c) == {s \in SubIds : Subscription(s) \in Range(deps[c])}

\* C3: once the last strong reference to a component is dropped, every
\* subscription in its dependency list (and so, in turn, in the list of every
\* descendant that teardown reaches) is eventually unsubscribed, and the
\* closure of an unsubscribed subscription is never called again.
C3_TeardownCancels ==
    /\ \A c \in Comps : \A s \in SubIds :
          (state[c] = "dropping" /\ s \in OwnSubs(c)) ~> ~subs[s].active
    /\ [][\A s \in SubIds :
            subs[s].kind # "none" /\ ~subs[s].active => cb'.sub # s]_vars

\* What does hold: a teardown that has started ends, unless the thread
\* panics on the way.
C3_TeardownEndsOrPanics ==
    \A c \in Comps : state[c] = "dropping" ~> (state[c] = "dead" \/ Panicked(Main))

\* The teardown of a component was cut short by a panic while one of its
\* subscriptions was still subscribed.
C3_Stuck ==
    \E c \in Comps : \E s \in SubIds :
        /\ state[c] = "dropping"
        /\ s \in OwnSubs(c)
        /\ subs[s].active
        /\ Panicked(Main)

\* The subscriptions made by with_if / with_if_else.
CondSubs == {s \in SubIds : subs[s].kind \in {"if", "ifelse"}}

\* The condition value that activates branch b.
BranchValue(b) == b = 1

\* The branch the running closure call is about.
CbBranch == IF cb.pc \in {"activate1", "attach1", "deactivate1"} THEN 1 ELSE 2

\* C4: laziness. A branch's builder has run, and the branch holds a child,
\* only if the closure was called with that branch's value (true for the
\* first branch, false for the second of with_if_else); a branch whose value
\* was never emitted stays unbuilt, and Children::deactivate on an unbuilt
\* branch changes no component, element, dependency list or subscription.
C4_Lazy ==
    /\ [](\A s \in CondSubs : \A b \in {1, 2} :
            /\ (builds[s][b] > 0 \/ Branch(s, b) # None)
                   => BranchValue(b) \in seen[s]
            /\ b = 2 /\ subs[s].kind = "if" => builds[s][b] = 0
            /\ builds[s][b] = 0 => Branch(s, b) = None)
    /\ [][cb.pc \in {"deactivate1", "deactivate2"}
             /\ Branch(cb.sub, CbBranch) = None
          => UNCHANGED <<element, deps, subs, state, handles, builds, nextId,
                         nextSub>>]_vars

\* A with_if whose condition has only ever been false: its closure has
\* returned from deactivate and the branch is still unbuilt.
C4_Witness ==
    \E s \in SubIds :
        /\ subs[s].kind = "if"
        /\ subs[s].active
        /\ ran[s]
        /\ seen[s] = {FALSE}
        /\ builds[s][1] = 0
        /\ Branch(s, 1) = None
        /\ cb = NoCb
        /\ cont = NoCont

\* Children entries of the dependency lists that hold component x.
ChildEntries(x) ==
    {pi \in UNION {{<<p, i>> : i \in DOMAIN deps[p]} : p \in Comps} :
        deps[pi[1]][pi[2]] = Children(x)}

\* C5: a branch's builder runs at most once and its component is appended at
\* most once; once built the branch keeps the same component, and a later
\* activate or deactivate changes nothing but that component's hidden flag:
\* no allocation, no new dependency.
C5_BuildOnce ==
    /\ [](\A s \in CondSubs : \A b \in {1, 2} :
            /\ builds[s][b] <= 1
            /\ Branch(s, b) # None => Cardinality(ChildEntries(Branch(s, b))) <= 1)
    /\ [][\A s \in CondSubs : \A b \in {1, 2} :
            Branch(s, b) # None => Branch(s, b)' = Branch(s, b)]_vars
    /\ [][cb.pc \in {"activate1", "activate2", "deactivate1", "deactivate2"}
             /\ Branch(cb.sub, CbBranch) # None
          => /\ UNCHANGED <<deps, subs, state, handles, builds, nextId, nextSub>>
             /\ element' = [element EXCEPT
                              ![Branch(cb.sub, CbBranch)].hidden =
                                  cb.pc \in {"deactivate1", "deactivate2"}]]_vars

\* A with_if child that was built, hidden and shown again (true, false, true).
C5_Witness ==
    \E s \in SubIds :
        /\ subs[s].kind = "if"
        /\ stage[s] = 2
        /\ builds[s][1] = 1
        /\ Branch(s, 1) # None
        /\ ~element[Branch(s, 1)].hidden
        /\ cb = NoCb

\* No call of subscription s's closure is running or due.
Settled(s) ==
    /\ subs[s].active
    /\ ran[s]
    /\ cb.sub # s
    /\ s \notin Range(pending)

\* Branch b of s is built and not hidden.
Visible(s, b) == Branch(s, b) # None /\ ~element[Branch(s, b)].hidden

\* The child of with_if subscription s is attached to the parent: a child of
\* its element and an entry of its dependency list.
Attached(s) ==
    /\ Branch(s, 1) \in Range(element[subs[s].owner].children)
    /\ Children(Branch(s, 1)) \in Range(deps[subs[s].owner])

C8_NoIntermediateState ==
    \A s \in SubIds :
        subs[s].kind = "ifelse" /\ ran[s] /\ cb.sub = s /\ ~Panicked(Main)
            => Visible(s, 1) # Visible(s, 2)

\* What the closure's order of calls does give: both branches are visible
\* only between activate of the first and deactivate of the second
\* (condition true), and none is visible only between deactivate of the first
\* and the end of activate of the second (condition false), builder included.
C8_OrderOfCalls ==
    \A s \in SubIds :
        subs[s].kind = "ifelse" /\ ran[s] /\ cb.sub = s /\ ~Panicked(Main) =>
            /\ Visible(s, 1) /\ Visible(s, 2) => cb.pc = "deactivate2"
            /\ ~Visible(s, 1) /\ ~Visible(s, 2)
                   => cb.pc \in {"activate2", "attach2"}

\* The subscriptions made by set_inner_html.
TextSubs == {s \in SubIds : subs[s].kind = "text"}

\* Positions of the dependency list of c that hold subscription s.
SubEntries(c, s) == {i \in DOMAIN deps[c] : deps[c][i] = Subscription(s)}

C10_SilentDrop ==
    [][cb.pc = "text" /\ StrongCount(subs[cb.sub].owner) = 0 =>
          /\ UNCHANGED <<element, state, handles, deps, subs, rpc>>
          /\ cb' = NoCb]_vars

\* A store update made during the teardown of a bound component has reached
\* its closure, and the component's inner html still holds the old value.
C10_Witness ==
    \E s \in TextSubs :
        /\ subs[s].active
        /\ ran[s]
        /\ state[subs[s].owner] = "dropping"
        /\ cb = NoCb
        /\ pending = <<>>
        /\ ~Panicked(Main)
        /\ element[subs[s].owner].innerHtml # ToString(value.text)

\* C11: a component being destroyed loses its dependencies oldest first,
\* one at a time; a child whose last strong owner was the dropped Children
\* entry is torn down at once, and until that child is gone (element
\* released, its own list empty) no list but the innermost one is touched,
\* so the parent's next dependency waits.
C11_TeardownOrder ==
    /\ [][\A c \in Comps :
            state[c] = "dropping" /\ deps'[c] # deps[c] =>
                /\ deps[c] # <<>>
                /\ deps'[c] = Tail(deps[c])
                /\ c = Top.comp]_vars
    /\ [][\A c \in Comps :
            /\ dropStack # <<>>
            /\ deps[Top.comp] # <<>>
            /\ deps'[Top.comp] # deps[Top.comp]
            /\ Head(deps[Top.comp]) = Children(c)
            /\ state[c] = "live"
            /\ StrongCount(c) = 1
            => /\ state'[c] = "dropping"
               /\ dropStack' = Append(dropStack, [comp |-> c, then |-> <<>>])]_vars
    /\ [][\A c \in Comps :
            state[c] # "dead" /\ state'[c] = "dead" =>
                /\ c = Top.comp
                /\ deps[c] = <<>>
                /\ element[c].released]_vars

\* A child owned only by its parent's list has been torn down to its
\* last dependency (its subscription is cancelled) while the parent, below it
\* on the stack, still holds its next dependency.
C11_Witness ==
    /\ Len(dropStack) = 2
    /\ deps[dropStack[1].comp] # <<>>
    /\ deps[Top.comp] = <<>>
    /\ element[Top.comp].released
    /\ \E s \in SubIds :
          /\ subs[s].kind = "text"
          /\ subs[s].owner = Top.comp
          /\ ~subs[s].active

\* C12: when a component is destroyed, every subscription in its dependency
\* list is unsubscribed before the component's element (its native widget
\* handle) is released: no released element belongs to a component that
\* still has a subscribed entry in its list.
C12_UnsubscribeBeforeRelease ==
    \A c \in Comps : \A s \in SubIds :
        element[c].released /\ s \in OwnSubs(c) => ~subs[s].active

\* What the field order gives instead: the element is released before the
\* first dependency is dropped, so every entry leaves the list of a component
\* whose element is already gone.
C12_ElementFirst ==
    [][\A c \in Comps :
          state[c] = "dropping" /\ deps'[c] # deps[c] => element[c].released]_vars

\* C13: a child built by with_if / with_if_else and recorded as a Children
\* dependency of its parent has that entry as its only strong owner (the
\* subscription closure refers to it weakly), so dropping the entry destroys
\* the child.
C13_ListIsOnlyOwner ==
    \A s \in CondSubs : \A b \in {1, 2} :
        /\ Branch(s, b) # None
        /\ state[Branch(s, b)] = "live"
        /\ Children(Branch(s, b)) \in Range(deps[subs[s].owner])
        => StrongCount(Branch(s, b)) = 1

\* What the code does: Children::Init(comp) keeps a strong reference inside
\* the subscribed closure, so a built child lives exactly as long as the
\* closure or a Children entry holds it, and is torn down when the
\* subscription is dropped.
C13_ClosureOwnsChild ==
    \A s \in CondSubs : \A b \in {1, 2} :
        Branch(s, b) # None /\ subs[s].alive =>
            /\ state[Branch(s, b)] = "live"
            /\ StrongCount(Branch(s, b)) >= 1

\* The components that have been allocated.
Allocated == {c \in Comps : state[c] # "free"}

\* C14: a component's state (element and dependency list) is destroyed
\* exactly when its strong count reaches zero: it is live while a strong
\* owner remains and its teardown has started as soon as none does; upgrade
\* returns the component iff a strong owner remains; weak references (the
\* owner captured by subscribed closures) never keep it alive.
C14_DestroyedAtZero ==
    /\ [](\A c \in Allocated :
            /\ state[c] = "live" <=> StrongCount(c) > 0
            /\ upgrade(c) = (IF state[c] = "live" THEN c ELSE None)
            /\ state[c] = "live" => ~element[c].released)
    /\ [][\A c \in Comps :
            state[c] \in {"dropping", "dead"} => state'[c] # "live"]_vars

\* A component is being torn down while a subscribed closure still holds a
\* weak reference to it, and another component is still alive.
C14_Witness ==
    \E c, d \in Allocated : \E s \in SubIds :
        /\ state[c] = "dropping"
        /\ subs[s].alive
        /\ subs[s].owner = c
        /\ upgrade(c) = None
        /\ state[d] = "live"
        /\ handles[d] = 2

\* C15: the root component is never dropped. Once Component::root has
\* returned, the root stays live whatever handles the caller drops: its
\* element is never released, its dependency list never loses an entry and
\* the subscriptions recorded on it stay subscribed.
C15_RootNeverDropped ==
    /\ [](\A c \in RootComps :
            /\ state[c] = "live"
            /\ ROOT = c
            /\ ~element[c].released
            /\ \A s \in OwnSubs(c) : subs[s].active)
    /\ [][\A c \in RootComps :
            /\ Len(deps'[c]) >= Len(deps[c])
            /\ SubSeq(deps'[c], 1, Len(deps[c])) = deps[c]]_vars

\* The caller has dropped every handle of the root; the root is alive and
\* the text subscription recorded on it is still subscribed.
C15_Witness ==
    \E c \in RootComps : \E s \in OwnSubs(c) :
        /\ handles[c] = 0
        /\ state[c] = "live"
        /\ subs[s].active
        /\ Idle

\* C16: whenever the closure of with_if / with_if_else activates an unbuilt
\* branch, the parent still has a strong owner, so parent.upgrade() in
\* Children::activate succeeds and the call does not panic.
C16_ParentAliveAtActivate ==
    /\ cb.pc \in {"activate1", "activate2", "attach1", "attach2"}
    /\ Branch(cb.sub, CbBranch) = None
    => /\ StrongCount(subs[cb.sub].owner) > 0
       /\ ~Panicked(Main)

\* What does hold: while the application is between two calls (no teardown
\* running), a parent whose conditional subscription is subscribed is alive.
C16_AliveBetweenCalls ==
    \A s \in CondSubs :
        subs[s].active /\ dropStack = <<>> /\ cont.sub # s
            => StrongCount(subs[s].owner) > 0

\* C17: the dependency list of a live component only grows at its end: no
\* step removes, replaces or reorders an entry; and a subscription is
\* unsubscribed only by the teardown of the component it is recorded on, as
\* the entry at the head of that component's list is dropped, never while
\* the component has a strong owner.
C17_AppendOnly ==
    /\ [][\A c \in Comps :
            state[c] = "live" =>
                /\ Len(deps'[c]) >= Len(deps[c])
                /\ SubSeq(deps'[c], 1, Len(deps[c])) = deps[c]]_vars
    /\ [][\A s \in SubIds :
            subs[s].active /\ ~subs'[s].active =>
                /\ state[subs[s].owner] = "dropping"
                /\ StrongCount(subs[s].owner) = 0
                /\ Top.comp = subs[s].owner
                /\ Head(deps[Top.comp]) = Subscription(s)]_vars
    /\ [](\A s \in SubIds :
            subs[s].kind # "none" /\ ~subs[s].active
                => state[subs[s].owner] \in {"dropping", "dead"})

\* A live component carries several dependencies, a subscribed subscription
\* among them, while another component's subscription has been cancelled by
\* its teardown.
C17_Witness ==
    \E c \in Comps : \E s, u \in SubIds :
        /\ state[c] = "live"
        /\ Len(deps[c]) >= 2
        /\ s \in OwnSubs(c)
        /\ subs[s].active
        /\ subs[u].kind # "none"
        /\ ~subs[u].active

\* The Closure is still owned by a dependency list.
ClosureHeld(k) == closures[k] \in {"held", "called"}

\* C18: while a component is alive, the handler installed on its element is
\* a Closure that its dependency list still holds, and so is every handler
\* installed before it; every element of the page that has a handler belongs
\* to a live component, so no click ever calls a released Closure.
C18_HandlerValid ==
    /\ [](\A c \in Comps :
            state[c] = "live" /\ element[c].onclick # None =>
                /\ ClosureHeld(element[c].onclick)
                /\ Closure(element[c].onclick) \in Range(deps[c]))
    /\ [](\A c \in Comps : \A k \in ClosureIds :
            state[c] = "live" /\ Closure(k) \in Range(deps[c]) => ClosureHeld(k))
    /\ [](\A c \in Comps :
            InDocument(c) /\ element[c].onclick # None =>
                state[c] = "live" /\ ClosureHeld(element[c].onclick))
    /\ [][\A k \in ClosureIds :
            closures[k] # "called" /\ closures'[k] = "called" => ~Panicked(Main)']_vars

\* An element of the page got a second handler; a click has called it, and
\* the first handler's Closure is still held.
C18_Witness ==
    \E c \in Comps : \E k, j \in ClosureIds :
        /\ k # j
        /\ InDocument(c)
        /\ element[c].onclick = k
        /\ closures[k] = "called"
        /\ Closure(j) \in Range(deps[c])
        /\ ClosureHeld(j)

\* The dependency lists a step changes.
Touched == {c \in Comps : deps'[c] # deps[c]}

\* C19: a dependency list is never mutated re-entrantly. The list of a
\* component whose teardown has started never gains an entry, also when a
\* destructor run by that teardown makes a store call the closures of its
\* own subscriptions; and every step changes at most one list, by one entry
\* appended or by its head dropped.
C19_NoReentrantAppend ==
    /\ [][\A c \in Comps :
            state[c] \in {"dropping", "dead"} => Len(deps'[c]) <= Len(deps[c])]_vars
    /\ [][/\ Cardinality(Touched) <= 1
          /\ \A c \in Touched :
                \/ /\ Len(deps'[c]) = Len(deps[c]) + 1
                   /\ SubSeq(deps'[c], 1, Len(deps[c])) = deps[c]
                \/ /\ deps[c] # <<>>
                   /\ deps'[c] = Tail(deps[c])]_vars

\* A destructor run by a component's teardown set the condition; the
\* closure of the component's own with_if, not yet unsubscribed, built the
\* child and was about to append it to the list under teardown.
C19_Witness ==
    /\ cb.pc \in {"attach1", "attach2"}
    /\ state[subs[cb.sub].owner] = "dropping"
    /\ dropStack # <<>>
    /\ Top.comp = subs[cb.sub].owner
    /\ deps[Top.comp] # <<>>
    /\ Panicked(Main)

\* The components of the Children entries of p's dependency list, in order.
ChildSeq(p) ==
    LET cs == SelectSeq(deps[p], LAMBDA d : d.kind = "Children")
    IN  [i \in 1..Len(cs) |-> cs[i].id]

\* Entry i of p's list is the last attachment of its component: no later
\* entry of p names it and it has not moved below another parent since.
LastAttachment(p, i) ==
    /\ deps[p][i].kind = "Children"
    /\ \A j \in DOMAIN deps[p] : j > i => deps[p][j] # deps[p][i]
    /\ p \in DomParents(element, deps[p][i].id)

\* The components p's list placed last below p, in order, from entry i on.
RECURSIVE Placed(_, _)
Placed(p, i) ==
    IF i > Len(deps[p]) THEN <<>>
    ELSE (IF LastAttachment(p, i) THEN <<deps[p][i].id>> ELSE <<>>)
         \o Placed(p, i + 1)

\* Position of the first entry of p's list equal to dep (0 when absent).
EntryIndex(p, dep) ==
    IF \E i \in DOMAIN deps[p] : deps[p][i] = dep
    THEN CHOOSE i \in DOMAIN deps[p] :
            deps[p][i] = dep /\ \A j \in DOMAIN deps[p] : deps[p][j] = dep => i <= j
    ELSE 0

HasTextBinding(p) == \E s \in TextSubs : subs[s].owner = p

====
